---------------------------- MODULE Spec2Model ----------------------------
(***************************************************************************)
(* gorb.Balancer (src/balancer.go, the replicas/RWMutex revision, lines    *)
(* 152-311): one master *gorp.DbMap, a slice of read targets, a shared     *)
(* uint64 counter for round robin, and an RWMutex used by MasterCanRead    *)
(* and Replica.                                                            *)
(*                                                                         *)
(* A handle, a pointer to a gorp.DbMap, is a natural number: the n-th      *)
(* mapper NewBalancer allocated.  Nil is the nil pointer (and the nil      *)
(* error).  Goroutines are 1..NProcs; each runs one call at a time, and    *)
(* pc[p] is the source line it is about to execute.                        *)
(*                                                                         *)
(* Replica() releases the read lock before it reads b.replicas, so its     *)
(* reads (the length at line 307, the length at line 310, the length word  *)
(* and the data word at line 281) are separate steps that a MasterCanRead  *)
(* can come between.  Go leaves open whether the operand b.replicas of     *)
(* line 281 is loaded before or after the call b.replica(), and in which   *)
(* order the words of a slice are loaded; since a writer can promote and   *)
(* demote again between any two loads, every combination of values those   *)
(* orders can see is already seen with the one order modelled here.        *)
(*                                                                         *)
(* Spec is the concurrent use of Replica and MasterCanRead, SpecLive the   *)
(* same under fair scheduling, SpecSeq one caller making one call after    *)
(* the other (administrative calls included), SpecNew the NewBalancer call *)
(* itself over every sources string, and SpecSlaves the earlier slaves     *)
(* revision of the Balancer (lines 1-150).                                 *)
(***************************************************************************)
EXTENDS Integers, Sequences, FiniteSets, TLC

\* ------------------------------------------------------------------ bounds
\* longest sources string given to NewBalancer
MaxSrcLen == 7
\* number of goroutines calling into the Balancer
NProcs == 2
\* width in bits of the selection counter (uint64 in the source)
CounterBits == 2
\* longest recorded run of sequential Replica() results
MaxTrace == 7

\* ------------------------------------------------------------------ values
\* the nil *gorp.DbMap / nil error
Nil == -1
\* a word read from memory that is not an element of the slice read from
Garbage == -2

Procs == 1..NProcs
Wrap == 2 ^ CounterBits
\* the characters of a sources string: the separator and a DSN character
Chars == {";", "a"}
Sources == UNION {[1..n -> Chars] : n \in 0..MaxSrcLen}

Range(s) == {s[i] : i \in 1..Len(s)}
Occurrences(s, x) == Cardinality({i \in 1..Len(s) : s[i] = x})

\* ------------------------------------------------------------ construction
\* strings.Split(sources, ";"): n separators give n+1 segments, "" gives [""]
RECURSIVE Split(_)
Split(s) ==
  IF s = <<>> THEN << <<>> >>
  ELSE LET rest == Split(Tail(s)) IN
       IF Head(s) = ";" THEN << <<>> >> \o rest
       ELSE << <<Head(s)>> \o Head(rest) >> \o Tail(rest)

\* sql.Open(driverName, c): fails exactly when the driver is not registered
Open(driverOk, c) == driverOk

\* the loop of NewBalancer over conns[i..], b the Balancer built so far;
\* b.next is the next mapper to allocate, i is 1-based (Go's i + 1)
RECURSIVE OpenAll(_, _, _, _)
OpenAll(driverOk, conns, i, b) ==
  IF i > Len(conns) THEN b
  ELSE IF Len(conns[i]) = 0 THEN OpenAll(driverOk, conns, i + 1, b)
  ELSE IF ~Open(driverOk, conns[i]) THEN [b EXCEPT !.err = TRUE]
  ELSE IF i = 1
       THEN OpenAll(driverOk, conns, i + 1,
                    [b EXCEPT !.master = b.next, !.next = b.next + 1])
       ELSE OpenAll(driverOk, conns, i + 1,
                    [b EXCEPT !.replicas = Append(b.replicas, b.next),
                              !.next = b.next + 1])

NewBalancer(driverOk, sources) ==
  LET conns == Split(sources)
      b0 == [err |-> FALSE, master |-> Nil, replicas |-> <<>>,
             masterCanRead |-> FALSE, next |-> 0]
  IN IF Len(conns) = 0 THEN [b0 EXCEPT !.err = TRUE]
     ELSE LET b == OpenAll(driverOk, conns, 1, b0) IN
          IF b.err THEN b
          ELSE IF Len(b.replicas) = 0
               THEN [b EXCEPT !.replicas = Append(b.replicas, b.master),
                              !.masterCanRead = TRUE]
               ELSE b

\* ------------------------------------------------------------------- state
VARIABLES
  master,         \* the embedded *gorp.DbMap
  replicas,       \* b.replicas: the slice (its length word is Len(replicas))
  count,          \* b.count
  mu,             \* b.mu: [writer: goroutine holding or waiting for Lock, 0 if none;
                  \*        readers: number of RLock holders]
  masterCanRead,  \* b.masterCanRead
  pc,             \* per goroutine: where its current call stands
  read,           \* per goroutine: the argument of its MasterCanRead call
  idx,            \* per goroutine: the index replica() returned
  ret,            \* per goroutine: the handle Replica() returns
  raced,          \* per goroutine: b.replicas was stored during its Replica() call
  trace,          \* the indexes returned by the sequential caller since replicas last changed
  fresh,          \* replicas was never stored since NewBalancer
  out,            \* the result of the sequential caller's last administrative call
  args            \* the NewBalancer call: its arguments and how it returned

balancer == <<master, replicas, count, mu, masterCanRead>>
obs == <<trace, fresh, out>>
vars == <<master, replicas, count, mu, masterCanRead, pc, read, idx, ret, raced,
          trace, fresh, out, args>>

NoOut == [op |-> "none", dbs |-> <<>>, err |-> Nil, failing |-> {}]

\* NewBalancer returned the Balancer in use; its arguments are not kept
Built == [sources |-> <<>>, driverOk |-> TRUE, ret |-> "built"]

Init ==
  \E sources \in Sources, driverOk \in BOOLEAN :
    LET b == NewBalancer(driverOk, sources) IN
      /\ ~b.err
      /\ master = b.master
      /\ replicas = b.replicas
      /\ masterCanRead = b.masterCanRead
      /\ count = 0
      /\ mu = [writer |-> 0, readers |-> 0]
      /\ pc = [p \in Procs |-> "idle"]
      /\ read = [p \in Procs |-> FALSE]
      /\ idx = [p \in Procs |-> 0]
      /\ ret = [p \in Procs |-> Nil]
      /\ raced = [p \in Procs |-> FALSE]
      /\ trace = <<>>
      /\ fresh = TRUE
      /\ out = NoOut
      /\ args = Built

\* an unrecovered panic in any goroutine ends the program
Crashed == \E p \in Procs : pc[p] = "panic"

\* ----------------------------------------------------------------- Replica
\* the increment lost: the counter is read and not advanced
AddUint64Lost(c) == c

\* atomic.AddUint64(&b.count, 1)
AddUint64(c) == (c + 1) % Wrap

\* the modulo taken one too wide: an index equal to the length is possible
ModuloOffByOne(n, len) == n % (len + 1)

\* uint64 % uint64(len) of line 310
Modulo(n, len) == n % len

\* line 279: b.mu.RLock() waits while a writer holds or waits for the lock
ReplicaRLock(p) ==
  /\ ~Crashed
  /\ pc[p] = "idle"
  /\ mu.writer = 0
  /\ mu' = [mu EXCEPT !.readers = @ + 1]
  /\ pc' = [pc EXCEPT ![p] = "rlocked"]
  /\ UNCHANGED <<master, replicas, count, masterCanRead, read, idx, ret, raced>>

\* line 280: b.mu.RUnlock(), before b.replicas is read
ReplicaRUnlock(p) ==
  /\ ~Crashed
  /\ pc[p] = "rlocked"
  /\ mu' = [mu EXCEPT !.readers = @ - 1]
  /\ pc' = [pc EXCEPT ![p] = "len"]
  /\ UNCHANGED <<master, replicas, count, masterCanRead, read, idx, ret, raced>>

\* replica() without its special case for one read target
ReplicaLenNoShortcut(p) ==
  /\ ~Crashed
  /\ pc[p] = "len"
  /\ pc' = [pc EXCEPT ![p] = "add"]
  /\ UNCHANGED <<master, replicas, count, mu, masterCanRead, read, idx, ret, raced>>

\* line 307-308: if len(b.replicas) == 1 { return 0 }
ReplicaLen(p) ==
  /\ ~Crashed
  /\ pc[p] = "len"
  /\ IF Len(replicas) = 1
     THEN /\ idx' = [idx EXCEPT ![p] = 0]
          /\ pc' = [pc EXCEPT ![p] = "index"]
     ELSE /\ pc' = [pc EXCEPT ![p] = "add"]
          /\ UNCHANGED idx
  /\ UNCHANGED <<master, replicas, count, mu, masterCanRead, read, ret, raced>>

\* line 310: the atomic increment, and the modulo by the length read now; a zero
\* length is an integer division by zero, a run-time panic
ReplicaAdd(p) ==
  /\ ~Crashed
  /\ pc[p] = "add"
  /\ count' = AddUint64(count)
  /\ IF Len(replicas) = 0
     THEN /\ pc' = [pc EXCEPT ![p] = "panic"]
          /\ UNCHANGED idx
     ELSE /\ idx' = [idx EXCEPT ![p] = Modulo(count', Len(replicas))]
          /\ pc' = [pc EXCEPT ![p] = "index"]
  /\ UNCHANGED <<master, replicas, mu, masterCanRead, read, ret, raced>>

\* line 281, b.replicas[i]: the bounds check against the length word
ReplicaBounds(p) ==
  /\ ~Crashed
  /\ pc[p] = "index"
  /\ pc' = [pc EXCEPT ![p] = IF idx[p] < Len(replicas) THEN "elem" ELSE "panic"]
  /\ UNCHANGED <<master, replicas, count, mu, masterCanRead, read, idx, ret, raced>>

\* the words a load past the end of the array read can give: the zero value of
\* spare capacity, the master an in-place append put there, or anything else
PastEnd == {Nil, master, Garbage}

\* line 281, b.replicas[i]: the load of the element through the data word.  The
\* slice may have been replaced since the bounds check (nothing is locked), so
\* the array read can be shorter than the length checked.
ReplicaElem(p) ==
  /\ ~Crashed
  /\ pc[p] = "elem"
  /\ IF idx[p] < Len(replicas)
     THEN ret' = [ret EXCEPT ![p] = replicas[idx[p] + 1]]
     ELSE \E v \in PastEnd : ret' = [ret EXCEPT ![p] = v]
  /\ pc' = [pc EXCEPT ![p] = "done"]
  /\ UNCHANGED <<master, replicas, count, mu, masterCanRead, read, idx, raced>>

\* line 281-282: Replica() returns to its caller
ReplicaReturn(p) ==
  /\ ~Crashed
  /\ pc[p] = "done"
  /\ pc' = [pc EXCEPT ![p] = "idle"]
  /\ idx' = [idx EXCEPT ![p] = 0]
  /\ ret' = [ret EXCEPT ![p] = Nil]
  /\ raced' = [raced EXCEPT ![p] = FALSE]
  /\ UNCHANGED <<master, replicas, count, mu, masterCanRead, read>>

\* ----------------------------------------------------------- MasterCanRead
\* a promotion that appends the first read target instead of the master
PromoteFirstTarget(reps, m) == Append(reps, reps[1])

\* line 215: append(b.replicas, b.DbMap)
Promote(reps, m) == Append(reps, m)

\* the demotion of the slaves revision: b.slaves[:len(b.slaves)-2]
DemoteTruncate(reps, m) == SubSeq(reps, 1, Len(reps) - 2)

\* a demotion that clears the flag and leaves the list as it is
DemoteNothing(reps, m) == reps

\* lines 219-225: the fresh slice of every db != b.DbMap
Demote(reps, m) == SelectSeq(reps, LAMBDA db : db # m)

\* line 214 without its test of b.masterCanRead
MasterCanReadBranchNoFlag(rd, mcr, len) ==
  IF rd = TRUE THEN "promote"
  ELSE IF rd = FALSE /\ mcr = TRUE /\ len > 1 THEN "demote"
  ELSE "none"

\* line 218 without its test of len(b.replicas) > 1
MasterCanReadBranchNoLen(rd, mcr, len) ==
  IF rd = TRUE /\ mcr = FALSE THEN "promote"
  ELSE IF rd = FALSE /\ mcr = TRUE THEN "demote"
  ELSE "none"

\* the conditions of lines 214 and 218: which branch a call takes
MasterCanReadBranch(rd, mcr, len) ==
  IF rd = TRUE /\ mcr = FALSE THEN "promote"
  ELSE IF rd = FALSE /\ mcr = TRUE /\ len > 1 THEN "demote"
  ELSE "none"

\* the goroutines inside Replica() after its RUnlock: their reads of b.replicas
\* are ordered with no store
InFlight == {q \in Procs : pc[q] \in {"len", "add", "index", "elem", "done"}}

\* MasterCanRead entered without waiting for the writer that holds the lock
MasterCanReadLockNoExclusion(p, rd) ==
  /\ ~Crashed
  /\ pc[p] = "idle"
  /\ mu' = [mu EXCEPT !.writer = p]
  /\ read' = [read EXCEPT ![p] = rd]
  /\ pc' = [pc EXCEPT ![p] = "acquire"]
  /\ UNCHANGED <<master, replicas, count, masterCanRead, idx, ret, raced>>

\* line 212, b.mu.Lock(): the writer excludes other writers and new readers...
MasterCanReadLock(p, rd) ==
  /\ ~Crashed
  /\ pc[p] = "idle"
  /\ mu.writer = 0
  /\ mu' = [mu EXCEPT !.writer = p]
  /\ read' = [read EXCEPT ![p] = rd]
  /\ pc' = [pc EXCEPT ![p] = "acquire"]
  /\ UNCHANGED <<master, replicas, count, masterCanRead, idx, ret, raced>>

\* ... and waits until the readers that hold the lock have released it
MasterCanReadAcquire(p) ==
  /\ ~Crashed
  /\ pc[p] = "acquire"
  /\ mu.readers = 0
  /\ pc' = [pc EXCEPT ![p] = "body"]
  /\ UNCHANGED <<master, replicas, count, mu, masterCanRead, read, idx, ret, raced>>

\* lines 214 and 218: the two conditions; at most one branch is taken
MasterCanReadCheck(p) ==
  /\ ~Crashed
  /\ pc[p] = "body"
  /\ pc' = [pc EXCEPT ![p] =
              IF MasterCanReadBranch(read[p], masterCanRead, Len(replicas)) = "none"
              THEN "unlock" ELSE "store"]
  /\ UNCHANGED <<master, replicas, count, mu, masterCanRead, read, idx, ret, raced>>

\* line 215 (read) or lines 219-225 (!read): b.replicas is replaced
MasterCanReadStore(p) ==
  /\ ~Crashed
  /\ pc[p] = "store"
  /\ replicas' = IF read[p] THEN Promote(replicas, master) ELSE Demote(replicas, master)
  /\ raced' = [q \in Procs |-> raced[q] \/ (q \in InFlight /\ replicas' # replicas)]
  /\ pc' = [pc EXCEPT ![p] = "flag"]
  /\ UNCHANGED <<master, count, mu, masterCanRead, read, idx, ret>>

\* line 216 or 226: b.masterCanRead = read
MasterCanReadFlag(p) ==
  /\ ~Crashed
  /\ pc[p] = "flag"
  /\ masterCanRead' = read[p]
  /\ pc' = [pc EXCEPT ![p] = "unlock"]
  /\ UNCHANGED <<master, replicas, count, mu, read, idx, ret, raced>>

\* line 213: the deferred b.mu.Unlock()
MasterCanReadUnlock(p) ==
  /\ ~Crashed
  /\ pc[p] = "unlock"
  /\ mu' = [mu EXCEPT !.writer = 0]
  /\ read' = [read EXCEPT ![p] = FALSE]
  /\ pc' = [pc EXCEPT ![p] = "idle"]
  /\ UNCHANGED <<master, replicas, count, masterCanRead, idx, ret, raced>>

\* ------------------------------------------------- concurrent specification
\* NProcs goroutines call Replica() and MasterCanRead(read) in any interleaving
Next ==
  \E p \in Procs :
    \/ ReplicaRLock(p) /\ UNCHANGED <<obs, args>>
    \/ ReplicaRUnlock(p) /\ UNCHANGED <<obs, args>>
    \/ ReplicaLen(p) /\ UNCHANGED <<obs, args>>
    \/ ReplicaAdd(p) /\ UNCHANGED <<obs, args>>
    \/ ReplicaBounds(p) /\ UNCHANGED <<obs, args>>
    \/ ReplicaElem(p) /\ UNCHANGED <<obs, args>>
    \/ ReplicaReturn(p) /\ UNCHANGED <<obs, args>>
    \/ \E rd \in BOOLEAN : MasterCanReadLock(p, rd) /\ UNCHANGED <<obs, args>>
    \/ MasterCanReadAcquire(p) /\ UNCHANGED <<obs, args>>
    \/ MasterCanReadCheck(p) /\ UNCHANGED <<obs, args>>
    \/ MasterCanReadStore(p) /\ UNCHANGED <<obs, args>>
    \/ MasterCanReadFlag(p) /\ UNCHANGED <<obs, args>>
    \/ MasterCanReadUnlock(p) /\ UNCHANGED <<obs, args>>

Spec == Init /\ [][Next]_vars

\* --------------------------------------------------- fair scheduling
\* the steps goroutine p takes once it is inside a call.  The Go scheduler runs
\* every runnable goroutine again, and a goroutine blocked in Lock is woken
\* when the last reader leaves: a step that stays enabled is taken.
Step(p) ==
  /\ UNCHANGED <<obs, args>>
  /\ \/ ReplicaRUnlock(p)
     \/ ReplicaLen(p)
     \/ ReplicaAdd(p)
     \/ ReplicaBounds(p)
     \/ ReplicaElem(p)
     \/ ReplicaReturn(p)
     \/ MasterCanReadAcquire(p)
     \/ MasterCanReadCheck(p)
     \/ MasterCanReadStore(p)
     \/ MasterCanReadFlag(p)
     \/ MasterCanReadUnlock(p)

SpecLive == Init /\ [][Next]_vars /\ \A p \in Procs : WF_vars(Step(p))

\* ------------------------------------------------------ administrative calls
\* the master appended after the replicas
GetAllDbsMasterLast(m, reps) == reps \o <<m>>

\* lines 286-291: the master, then b.replicas
GetAllDbs(m, reps) == <<m>> \o reps

\* the first read target returned for the master
MasterFirstReplica(m, reps) == reps[1]

\* line 274
Master(m, reps) == m

\* a loop "for _, db := range b.GetAllDbs() { ... db.Db.X() ... }" over dbs[i..]:
\* the handles called in order, the last error seen (the number of the call it
\* came from), and whether db.Db dereferenced a nil db; failing are the calls,
\* numbered from 1, that return an error
RECURSIVE FanOut(_, _, _, _)
FanOut(dbs, i, failing, acc) ==
  IF i > Len(dbs) THEN acc
  ELSE IF dbs[i] = Nil THEN [acc EXCEPT !.panic = TRUE]
  ELSE FanOut(dbs, i + 1, failing,
              [acc EXCEPT !.dbs = Append(acc.dbs, dbs[i]),
                          !.err = IF i \in failing THEN i ELSE acc.err])

\* the sequential caller (goroutine 1) runs op over every db
AdminCall(op, failing) ==
  /\ ~Crashed
  /\ pc[1] = "idle"
  /\ LET r == FanOut(GetAllDbs(master, replicas), 1, failing,
                     [dbs |-> <<>>, err |-> Nil, panic |-> FALSE]) IN
       /\ out' = [op |-> op, dbs |-> r.dbs, err |-> r.err, failing |-> failing]
       /\ pc' = [pc EXCEPT ![1] = IF r.panic THEN "panic" ELSE "idle"]
  /\ UNCHANGED <<master, replicas, count, mu, masterCanRead, read, idx, ret, raced,
                 trace, fresh, args>>

Handles == (Range(replicas) \cup {master}) \ {Nil}

\* the calls db.Db.X() of one loop over b.GetAllDbs(), numbered from 1
Calls == 1..Len(GetAllDbs(master, replicas))

\* lines 231-240
Ping == \E failing \in SUBSET Calls : AdminCall("Ping", failing)

\* lines 246-250, 257-261, 266-270: the three setters, which return nothing
Tuner == \E op \in {"SetMaxIdleConns", "SetMaxOpenConns", "SetConnMaxLifetime"} :
           AdminCall(op, {})

\* lines 294-304
Close == \E failing \in SUBSET Calls : AdminCall("Close", failing)

\* lines 286-291, called on its own
GetAllDbsCall ==
  /\ ~Crashed
  /\ pc[1] = "idle"
  /\ out' = [op |-> "GetAllDbs", dbs |-> GetAllDbs(master, replicas), err |-> Nil,
             failing |-> {}]
  /\ UNCHANGED <<master, replicas, count, mu, masterCanRead, pc, read, idx, ret, raced,
                 trace, fresh, args>>

\* lines 273-275
MasterCall ==
  /\ ~Crashed
  /\ pc[1] = "idle"
  /\ out' = [op |-> "Master", dbs |-> <<Master(master, replicas)>>, err |-> Nil,
             failing |-> {}]
  /\ UNCHANGED <<master, replicas, count, mu, masterCanRead, pc, read, idx, ret, raced,
                 trace, fresh, args>>

\* ------------------------------------------------- sequential specification
\* One caller, goroutine 1, makes one call after the other.  trace records the
\* index of each Replica() result since b.replicas last changed.
NextSeq ==
  \/ /\ Len(trace) < MaxTrace
     /\ ReplicaRLock(1)
     /\ out' = NoOut
     /\ UNCHANGED <<trace, fresh, args>>
  \/ ReplicaRUnlock(1) /\ UNCHANGED <<obs, args>>
  \/ ReplicaLen(1) /\ UNCHANGED <<obs, args>>
  \/ ReplicaAdd(1) /\ UNCHANGED <<obs, args>>
  \/ ReplicaBounds(1) /\ UNCHANGED <<obs, args>>
  \/ ReplicaElem(1) /\ UNCHANGED <<obs, args>>
  \/ /\ ReplicaReturn(1)
     /\ trace' = Append(trace, idx[1])
     /\ UNCHANGED <<fresh, out, args>>
  \/ \E rd \in BOOLEAN :
       /\ MasterCanReadLock(1, rd)
       /\ out' = NoOut
       /\ UNCHANGED <<trace, fresh, args>>
  \/ MasterCanReadAcquire(1) /\ UNCHANGED <<obs, args>>
  \/ MasterCanReadCheck(1) /\ UNCHANGED <<obs, args>>
  \/ /\ MasterCanReadStore(1)
     /\ trace' = <<>>
     /\ fresh' = FALSE
     /\ UNCHANGED <<out, args>>
  \/ MasterCanReadFlag(1) /\ UNCHANGED <<obs, args>>
  \/ MasterCanReadUnlock(1) /\ UNCHANGED <<obs, args>>
  \/ GetAllDbsCall
  \/ MasterCall
  \/ Ping
  \/ Tuner
  \/ Close

SpecSeq == Init /\ [][NextSeq]_vars

\* ----------------------------------------------- construction specification
\* NewBalancer is called once, with any sources string and any driver name
InitNew ==
  /\ \E sources \in Sources, driverOk \in BOOLEAN :
       args = [sources |-> sources, driverOk |-> driverOk, ret |-> "call"]
  /\ master = Nil
  /\ replicas = <<>>
  /\ masterCanRead = FALSE
  /\ count = 0
  /\ mu = [writer |-> 0, readers |-> 0]
  /\ pc = [p \in Procs |-> "idle"]
  /\ read = [p \in Procs |-> FALSE]
  /\ idx = [p \in Procs |-> 0]
  /\ ret = [p \in Procs |-> Nil]
  /\ raced = [p \in Procs |-> FALSE]
  /\ trace = <<>>
  /\ fresh = TRUE
  /\ out = NoOut

\* lines 180-207: the call returns (nil, err) or (b, nil)
NewBalancerCall ==
  /\ args.ret = "call"
  /\ LET b == NewBalancer(args.driverOk, args.sources) IN
       IF b.err
       THEN /\ args' = [args EXCEPT !.ret = "err"]
            /\ UNCHANGED <<master, replicas, masterCanRead>>
       ELSE /\ args' = [args EXCEPT !.ret = "ok"]
            /\ master' = b.master
            /\ replicas' = b.replicas
            /\ masterCanRead' = b.masterCanRead
  /\ UNCHANGED <<count, mu, pc, read, idx, ret, raced, trace, fresh, out>>

NextNew == NewBalancerCall

SpecNew == InitNew /\ [][NextNew]_vars

\* ------------------------------------------- the slaves revision (lines 1-150)
\* The earlier revision of the Balancer: b.slaves where the later one has
\* b.replicas (the variable replicas holds it), a sync.Mutex, no skipping of
\* empty segments, and a demotion by reslicing.  One caller, goroutine 1.

\* lines 29-54: every segment is opened, the first is the master
SlavesNewBalancer(driverOk, sources) ==
  LET conns == Split(sources)
      n == Len(conns)
  IN IF n = 0 \/ ~Open(driverOk, conns[1])
     THEN [err |-> TRUE, master |-> Nil, slaves |-> <<>>, masterCanRead |-> FALSE]
     ELSE [err |-> FALSE, master |-> 0,
           slaves |-> IF n = 1 THEN <<0>> ELSE [i \in 1..(n - 1) |-> i],
           masterCanRead |-> (n = 1)]

InitSlaves ==
  \E sources \in Sources, driverOk \in BOOLEAN :
    LET b == SlavesNewBalancer(driverOk, sources) IN
      /\ ~b.err
      /\ master = b.master
      /\ replicas = b.slaves
      /\ masterCanRead = b.masterCanRead
      /\ count = 0
      /\ mu = [writer |-> 0, readers |-> 0]
      /\ pc = [p \in Procs |-> "idle"]
      /\ read = [p \in Procs |-> FALSE]
      /\ idx = [p \in Procs |-> 0]
      /\ ret = [p \in Procs |-> Nil]
      /\ raced = [p \in Procs |-> FALSE]
      /\ trace = <<>>
      /\ fresh = TRUE
      /\ out = NoOut
      /\ args = Built

\* line 104: b.slaves[:len(b.slaves)-2]
SlavesDemote(slaves) == SubSeq(slaves, 1, Len(slaves) - 2)

\* lines 100-110, the whole call; out.dbs keeps b.slaves as the call found it.
\* A negative slice bound at line 104 is a run-time panic (the deferred Unlock
\* runs, nothing was stored).
SlavesMasterCanRead(rd) ==
  /\ ~Crashed
  /\ pc[1] = "idle"
  /\ read' = [read EXCEPT ![1] = rd]
  /\ out' = [op |-> "MasterCanRead", dbs |-> replicas, err |-> Nil, failing |-> {}]
  /\ IF masterCanRead /\ rd = FALSE /\ Len(replicas) - 2 < 0
     THEN /\ pc' = [pc EXCEPT ![1] = "panic"]
          /\ UNCHANGED <<replicas, masterCanRead>>
     ELSE /\ replicas' = IF masterCanRead /\ rd = FALSE THEN SlavesDemote(replicas)
                         ELSE IF ~masterCanRead /\ rd = TRUE THEN Append(replicas, master)
                         ELSE replicas
          /\ masterCanRead' = rd
          /\ UNCHANGED pc
  /\ UNCHANGED <<master, count, mu, idx, ret, raced, trace, fresh, args>>

\* lines 118-122 and 145-150, the whole call: Lock, Unlock, b.slaves[b.slave()];
\* a zero length at line 149 is an integer division by zero, a run-time panic
Slave ==
  /\ ~Crashed
  /\ pc[1] = "idle"
  /\ LET n == Len(replicas)
         c == IF n = 1 THEN count ELSE AddUint64(count)
         i == IF n = 1 THEN 0 ELSE IF n = 0 THEN Nil ELSE Modulo(c, n)
     IN /\ count' = c
        /\ IF n = 0
           THEN /\ pc' = [pc EXCEPT ![1] = "panic"]
                /\ UNCHANGED <<idx, ret>>
                /\ out' = [op |-> "Slave", dbs |-> <<>>, err |-> Nil, failing |-> {}]
           ELSE /\ idx' = [idx EXCEPT ![1] = i]
                /\ ret' = [ret EXCEPT ![1] = replicas[i + 1]]
                /\ out' = [op |-> "Slave", dbs |-> <<replicas[i + 1]>>, err |-> Nil,
                           failing |-> {}]
                /\ UNCHANGED pc
  /\ UNCHANGED <<master, replicas, mu, masterCanRead, read, raced, trace, fresh, args>>

NextSlaves ==
  \/ \E rd \in BOOLEAN : SlavesMasterCanRead(rd)
  \/ Slave

SpecSlaves == InitSlaves /\ [][NextSlaves]_vars

\* ================================================================== claims
\* a replica was configured: some read target is not the master
HasReplica == \E i \in 1..Len(replicas) : replicas[i] # master

\* C1: after NewBalancer and any interleaving of MasterCanRead(true) and
\* MasterCanRead(false) calls, the replicas list is never empty.
C1_ReplicasNeverEmpty == Len(replicas) >= 1

\* a demotion has just replaced a two-element list by a one-element list
C1_Witness ==
  \E p \in Procs : pc[p] = "flag" /\ ~read[p] /\ Len(replicas) = 1 /\ masterCanRead

\* C2: while Replica() runs concurrently with MasterCanRead, the index it uses is
\* within the bounds of the list it indexes (no index-out-of-range panic), and
\* the handle it returns was an element of replicas at a moment of the call.
C2_ReplicaIndexInBounds ==
  \A p \in Procs :
    /\ pc[p] # "panic"
    /\ pc[p] = "elem" => idx[p] < Len(replicas)
    /\ pc[p] = "done" =>
         ret[p] \in Range(replicas) \cup (IF raced[p] THEN {master} ELSE {})

\* C3: a Replica() call during which no MasterCanRead stored b.replicas never
\* panics and uses an index in 0..len(replicas)-1, whatever the other callers
\* of Replica() do to the counter.
C3_ReplicaInRangeWithoutReconfiguration ==
  \A p \in Procs :
    ~raced[p] =>
      /\ pc[p] # "panic"
      /\ pc[p] \in {"index", "elem"} => idx[p] \in 0..(Len(replicas) - 1)
      /\ pc[p] = "done" => ret[p] \in Range(replicas)

\* two goroutines are inside Replica() with different indexes, no store in between
C3_Witness ==
  \E p, q \in Procs :
    /\ pc[p] = "elem" /\ pc[q] = "elem"
    /\ idx[p] # idx[q]
    /\ ~raced[p] /\ ~raced[q]

\* C4 as amended: with k > 1 read targets and one sequential caller, each
\* Replica() call returns index (c mod 2^w) mod k, c the counter after its
\* increment: a fresh Balancer starts at index 1, not 0, and goes on 2, ...,
\* k-1, 0, 1, ...; the cycle repeats for as long as the counter does not wrap.
C4_RoundRobinStartsAtSecond ==
  (pc[1] = "idle" /\ Len(replicas) > 1) =>
    \A j \in 1..Len(trace) :
      /\ trace[j] = ((count + Wrap * MaxTrace - (Len(trace) - j)) % Wrap) % Len(replicas)
      /\ fresh => trace[j] = (j % Wrap) % Len(replicas)

\* a fresh Balancer with three replicas has answered 1, 2, 0
C4_Witness ==
  /\ pc[1] = "idle" /\ fresh /\ Len(replicas) = 3
  /\ Len(trace) >= 3 /\ SubSeq(trace, 1, 3) = <<1, 2, 0>>

\* C4 as claimed: k sequential calls on a fresh Balancer visit the read targets
\* in insertion order (index 0 first), and further calls repeat that cycle.
C4_InsertionOrder ==
  (pc[1] = "idle" /\ fresh /\ Len(replicas) > 1) =>
    \A j \in 1..Len(trace) : trace[j] = (j - 1) % Len(replicas)

\* C5: with a replica configured, the master serves no read by default and
\* after MasterCanRead(false) (Replica() never returns it), and after
\* MasterCanRead(true) it is a read target that sequential Replica() calls reach.
C5_MasterReadsOnlyWhenEnabled ==
  HasReplica =>
    /\ fresh => ~masterCanRead /\ master \notin Range(replicas)
    /\ (pc[1] = "unlock" /\ ~read[1]) => ~masterCanRead /\ master \notin Range(replicas)
    /\ (pc[1] = "unlock" /\ read[1]) => masterCanRead /\ master \in Range(replicas)
    /\ (pc[1] = "done" /\ ~masterCanRead) => ret[1] # master
    /\ (pc[1] = "idle" /\ masterCanRead /\ Len(trace) >= 2 * Len(replicas) - 1) =>
         \E j \in 1..Len(trace) : replicas[trace[j] + 1] = master

\* after a promotion and a demotion, Replica() has returned a replica
C5_Witness ==
  /\ HasReplica /\ ~fresh /\ ~masterCanRead
  /\ pc[1] = "done" /\ ret[1] # master /\ Len(trace) >= 1

\* C6: outside the two lines of MasterCanRead that store the list and then the
\* flag, masterCanRead is true iff the master is in replicas; the master is in
\* replicas at most once.
C6_FlagMatchesReplicas ==
  /\ Occurrences(replicas, master) <= 1
  /\ (\A p \in Procs : pc[p] # "flag") => (masterCanRead <=> master \in Range(replicas))

\* the master was promoted into a list of two replicas and every call returned
C6_Witness ==
  /\ masterCanRead /\ Len(replicas) = 3
  /\ \A p \in Procs : pc[p] = "idle"

\* C7: MasterCanRead(true) with the master absent appends it at the end, once;
\* MasterCanRead(true) with the master present changes nothing, from whichever
\* goroutine; the master is never in replicas twice.
C7_PromoteAppendsOnce ==
  /\ [](Occurrences(replicas, master) <= 1)
  /\ [](\A p \in Procs :
          (pc[p] = "unlock" /\ read[p]) =>
             masterCanRead /\ replicas[Len(replicas)] = master)
  /\ [][\A p \in Procs :
          (pc[p] = "store" /\ read[p] /\ pc'[p] = "flag") =>
             master \notin Range(replicas) /\ replicas' = Append(replicas, master)]_vars
  /\ [][\A p \in Procs :
          (pc[p] = "body" /\ read[p] /\ master \in Range(replicas) /\ pc'[p] # "body") =>
             pc'[p] = "unlock" /\ replicas' = replicas /\ masterCanRead' = masterCanRead]_vars

\* a MasterCanRead(true) has just appended the master to two replicas
C7_Witness ==
  \E p \in Procs : pc[p] = "flag" /\ read[p] /\ Len(replicas) = 3 /\ replicas[3] = master

\* C8: MasterCanRead(false) when the master is the only read target leaves
\* replicas and masterCanRead as they were, and replicas is not empty after it.
C8_DemoteOnlyTargetIsNoOp ==
  /\ [][\A p \in Procs :
          (pc[p] = "body" /\ ~read[p] /\ replicas = <<master>> /\ pc'[p] # "body") =>
             pc'[p] = "unlock" /\ replicas' = replicas /\ masterCanRead' = masterCanRead]_vars
  /\ [](\A p \in Procs : (pc[p] = "unlock" /\ ~read[p]) => Len(replicas) >= 1)

\* a MasterCanRead(false) went through with the master as the only read target
C8_Witness ==
  \E p \in Procs :
    pc[p] = "unlock" /\ ~read[p] /\ replicas = <<master>> /\ masterCanRead /\ master # Nil

\* C9: GetAllDbs() returns the master as element 0, then replicas in order
\* (1 + len(replicas) elements), and changes no field of the Balancer.
C9_GetAllDbsMasterFirst ==
  /\ [](out.op = "GetAllDbs" =>
          /\ Len(out.dbs) = 1 + Len(replicas)
          /\ out.dbs[1] = master
          /\ \A i \in 1..Len(replicas) : out.dbs[i + 1] = replicas[i])
  /\ [][(out' # out /\ out'.op = "GetAllDbs") =>
          UNCHANGED balancer]_vars

\* GetAllDbs() was called with the master promoted beside two replicas
C9_Witness ==
  out.op = "GetAllDbs" /\ Len(out.dbs) = 4 /\ masterCanRead /\ HasReplica

\* C10: Master() returns the master, and no call ever changes the master.
C10_MasterNeverChanges ==
  /\ [](out.op = "Master" => out.dbs = <<master>>)
  /\ [][master' = master]_vars

\* Master() was called after reconfigurations, with another handle first in replicas
C10_Witness ==
  out.op = "Master" /\ ~fresh /\ masterCanRead /\ replicas[1] # master /\ master # Nil

\* the last call of a set of failing calls
LastOf(S) == CHOOSE x \in S : \A y \in S : y <= x

\* C11: Close() calls Close on every handle of the Balancer, also after a call
\* that failed, and returns an error iff some call failed, the error of the
\* last call that failed.
C11_CloseAttemptsEveryHandle ==
  (out.op = "Close" /\ Handles # {}) =>
    /\ pc[1] # "panic"
    /\ Handles \subseteq Range(out.dbs)
    /\ (out.err # Nil) <=> (out.failing # {})
    /\ out.failing # {} => out.err = LastOf(out.failing)

\* C12: Ping() calls Ping on every handle without stopping at the first error,
\* returns nil only if every call succeeded and the error of the last failing
\* call otherwise.
C12_PingAttemptsEveryHandle ==
  (out.op = "Ping" /\ Handles # {}) =>
    /\ pc[1] # "panic"
    /\ \A h \in Handles : \E i \in 1..Len(out.dbs) : out.dbs[i] = h
    /\ (out.err = Nil) <=> (out.failing = {})
    /\ out.err # Nil => out.err = LastOf(out.failing)

\* the calls that fan out over b.GetAllDbs()
FanOutOps == {"Ping", "SetMaxIdleConns", "SetMaxOpenConns", "SetConnMaxLifetime", "Close"}

\* C13: Ping, the three setters and Close call each distinct handle exactly
\* once, the master first; a master that is also a read target is not called
\* twice.
C13_FanOutOncePerHandle ==
  (out.op \in FanOutOps /\ master # Nil) =>
    /\ Len(out.dbs) >= 1 /\ out.dbs[1] = master
    /\ \A i, j \in 1..Len(out.dbs) : out.dbs[i] = out.dbs[j] => i = j
    /\ Range(out.dbs) = Handles

\* the non-empty segments of a sources string, in order.  The k-th of them that
\* NewBalancer opens is handle k-1, so the first non-empty segment is handle 0.
Segments(sources) == SelectSeq(Split(sources), LAMBDA c : Len(c) > 0)

\* C14: NewBalancer makes the first non-empty segment the master and every later
\* non-empty segment a replica, in order, wherever the empty segments are; with
\* no replica segment replicas is [master] and masterCanRead is true, otherwise
\* masterCanRead is false.
C14_FirstNonEmptySegmentIsMaster ==
  LET n == Len(Segments(args.sources)) IN
    (args.ret = "ok" /\ n >= 1) =>
      /\ master = 0
      /\ replicas = IF n = 1 THEN <<master>> ELSE [i \in 1..(n - 1) |-> i]
      /\ masterCanRead = (n = 1)

\* C15: NewBalancer given no non-empty segment (the empty string, or separators
\* only) returns an error and no Balancer; it never returns a Balancer whose
\* master is nil.
C15_EmptySourcesRejected ==
  /\ (args.ret \in {"ok", "err"} /\ Len(Segments(args.sources)) = 0) => args.ret = "err"
  /\ args.ret = "ok" => master # Nil

\* the read targets other than the master, in order
NonMaster(reps) == SelectSeq(reps, LAMBDA db : db # master)

\* C16: MasterCanRead never adds or removes a handle other than the master: the
\* read targets other than the master are the replicas configured at
\* construction, each once, in their original order, after any calls.
C16_ConfiguredReplicasKept ==
  /\ [][NonMaster(replicas') = NonMaster(replicas)]_vars
  /\ [](\A i, j \in 1..Len(replicas) :
          (replicas[i] = replicas[j] /\ replicas[i] # master) => i = j)
  /\ [](\A i, j \in 1..Len(NonMaster(replicas)) :
          i < j => NonMaster(replicas)[i] < NonMaster(replicas)[j])

\* a demotion has just taken the master out from behind two configured replicas
C16_Witness ==
  \E p \in Procs :
    /\ pc[p] = "flag" /\ ~read[p] /\ master # Nil
    /\ Len(replicas) = 2 /\ master \notin Range(replicas)

\* C17: with exactly one read target, every Replica() call returns that target
\* (index 0) and leaves the counter as it was.
C17_SingleTargetLeavesCounter ==
  /\ [][Len(replicas) = 1 => count' = count]_vars
  /\ []((pc[1] = "done" /\ Len(replicas) = 1) => idx[1] = 0 /\ ret[1] = replicas[1])
  /\ []((pc[1] = "idle" /\ Len(replicas) = 1) => \A j \in 1..Len(trace) : trace[j] = 0)

\* the counter was advanced while the master was promoted; after the demotion
\* two Replica() calls have returned the one replica left
C17_Witness ==
  /\ pc[1] = "done" /\ Len(replicas) = 1 /\ ret[1] # master
  /\ count = 1 /\ Len(trace) >= 1

\* C18: under sequential access with k > 1 read targets, consecutive Replica()
\* calls select consecutive indexes, i then (i+1) mod k, also when the counter
\* wraps from its maximum to 0.
C18_ConsecutiveAcrossWrap ==
  (pc[1] = "idle" /\ Len(replicas) > 1) =>
    \A j \in 1..(Len(trace) - 1) : trace[j + 1] = (trace[j] + 1) % Len(replicas)

\* C19: in the slaves revision, MasterCanRead(false) with the master among the
\* slaves removes the master and nothing else: the configured slaves stay, in
\* order, the slice bound is not negative, the list is not left empty, and a
\* following Slave() selects a valid index.
C19_SlavesDemoteRemovesOnlyMaster ==
  /\ pc[1] # "panic"
  /\ (out.op = "MasterCanRead" /\ ~read[1] /\ master \in Range(out.dbs)) =>
       /\ replicas = NonMaster(out.dbs)
       /\ Len(replicas) >= 1
  /\ out.op = "Slave" => out.dbs # <<>> /\ out.dbs[1] \in Range(replicas)

\* C20: under fair scheduling every Replica() call and every MasterCanRead call
\* a goroutine has started returns, and a call that has returned holds no lock.
C20_EveryCallReturns ==
  /\ \A p \in Procs : (pc[p] # "idle" /\ master # Nil) ~> (pc[p] = "idle")
  /\ []((\A p \in Procs : pc[p] = "idle") => mu = [writer |-> 0, readers |-> 0])
=============================================================================
